---- MODULE Spec2Model ----
(***************************************************************************)
(* Restaurant backend (src/main.py, src/init_db.py): four SQLite tables    *)
(* and the HTTP handlers over them.  Every execute_sql call opens its own  *)
(* connection and commits (main.py:12-22), so one step of the model is one *)
(* SQL statement of one request.  The handlers are sync functions, which   *)
(* FastAPI runs in a thread pool: under Spec the statements of two         *)
(* requests interleave freely; under SpecSerial one request runs at a      *)
(* time; SpecCustomers is Spec restricted to the customer endpoints.  The  *)
(* connection never issues PRAGMA foreign_keys, so the FOREIGN KEY clauses *)
(* of init_db.py are declared and not enforced.                            *)
(*                                                                         *)
(* Not modelled: customer_orders.order_time (written once at main.py:130,  *)
(* read by no handler) and the request-schema validation done by pydantic  *)
(* before a handler runs.                                                  *)
(***************************************************************************)
EXTENDS Integers, Sequences, FiniteSets, TLC

\* ------------------------------------------------------------------ bounds
\* Number of requests received in a run.
MaxRequests == 4
\* Longest items list of an order body.
MaxItems == 2

\* The requests that may be in flight at once.
Reqs == {"r1", "r2"}

\* ------------------------------------------------------------------ inputs
FullNames == {"ann"}
ContactNumbers == {"555", "777"}
DishNames == {"dal", "nan"}
Costs == {1, 2}
None == "None"
OrderNotes == {None, "hot"}

CustomerBodies == [full_name : FullNames, contact_number : ContactNumbers]
MenuItemBodies == [dish_name : DishNames, cost : Costs]
\* The costs a client sends with the items of an order.
ClientCosts == {1}
OrderItemBodies == [dish_name : DishNames, cost : ClientCosts]
ItemLists == UNION {[1..n -> OrderItemBodies] : n \in 0..MaxItems}

VARIABLES
    customers,        \* table customers:       id -> [full_name, contact_number]
    menu_items,       \* table menu_items:      id -> [dish_name, cost]
    customer_orders,  \* table customer_orders: id -> [customer_id, order_notes]
    ordered_items,    \* table ordered_items:   id -> [order_id, menu_item_id]
    sqlite_sequence,  \* AUTOINCREMENT: table name -> highest id ever handed out
    pc,               \* request -> the statement its handler runs next
    req,              \* request -> [kind, id, body] as received
    loc,              \* request -> the handler's local variables
    resp,             \* request -> the response, once the handler is done
    received          \* number of requests received so far

store == <<customers, menu_items, customer_orders, ordered_items, sqlite_sequence>>
vars == <<customers, menu_items, customer_orders, ordered_items, sqlite_sequence,
          pc, req, loc, resp, received>>

\* ------------------------------------------------------------------ store
TableNames == {"customers", "menu_items", "customer_orders", "ordered_items"}

Table(table) ==
    CASE table = "customers" -> customers
      [] table = "menu_items" -> menu_items
      [] table = "customer_orders" -> customer_orders
      [] table = "ordered_items" -> ordered_items

\* The id an INSERT gets: AUTOINCREMENT never hands an id out twice.
NextId(table) == sqlite_sequence[table] + 1

Bump(table) == [sqlite_sequence EXCEPT ![table] = @ + 1]

InsertRow(T, id, row) == [k \in DOMAIN T \cup {id} |-> IF k = id THEN row ELSE T[k]]

UpdateRow(T, id, row) == [k \in DOMAIN T |-> IF k = id THEN row ELSE T[k]]

DeleteRows(T, ids) == [k \in DOMAIN T \ ids |-> T[k]]

\* The ids a client may name: every id handed out so far and one never handed out.
Ids(table) == 1..(sqlite_sequence[table] + 1)

OrderBodies ==
    [customer_id : Ids("customers"), items : ItemLists, order_notes : OrderNotes]

\* SELECT * FROM {table} WHERE id = ? ; truthy iff a row came back.
does_record_exist(table, record_id) == record_id \in DOMAIN Table(table)

\* Faulty variant, to test C6: contact_number declared without UNIQUE.
ContactNumberTaken_never(contact_number, except) == FALSE

\* contact_number TEXT UNIQUE: a row other than `except` holds the value.
ContactNumberTaken(contact_number, except) ==
    \E c \in DOMAIN customers :
        c # except /\ customers[c].contact_number = contact_number

\* dish_name TEXT UNIQUE: a row other than `except` holds the value.
DishNameTaken(dish_name, except) ==
    \E m \in DOMAIN menu_items :
        m # except /\ menu_items[m].dish_name = dish_name

\* ------------------------------------------------------------------ requests
NoReq == [kind |-> "none", id |-> 0]
NoLoc == [order_id |-> 0, i |-> 1, price_changes |-> <<>>, item_data |-> <<>>,
          order |-> <<>>]
NoResp == [status |-> 0]

Free(r) == pc[r] \in {"idle", "done"}

NotFound(detail) == [status |-> 404, detail |-> detail]
\* detail f"Menu item '{dish_name}' not found.": the text and the name put in it
MenuItemNotFound(dish_name) ==
    [status |-> 404, detail |-> "Menu item '{dish_name}' not found.",
     dish_name |-> dish_name]
Conflict == [status |-> 400, detail |-> "Customer with this contact number already exists."]
ServerError == [status |-> 500, detail |-> "Internal Server Error"]
Ok(message) == [status |-> 200, message |-> message]

\* What is kept of a request once its handler has returned: all of it but the
\* items and notes of an order body.
Summary(request) ==
    IF request.kind \in {"create_order", "update_order"} /\ "body" \in DOMAIN request
    THEN [kind |-> request.kind, id |-> request.id,
          customer_id |-> request.body.customer_id]
    ELSE request

\* A running handler goes on to statement `next`.
Goto(r, next) ==
    /\ pc' = [pc EXCEPT ![r] = next]
    /\ UNCHANGED <<req, resp, received>>

\* A running handler returns (or raises) `response`; its frame is dropped.
Return(r, response) ==
    /\ pc' = [pc EXCEPT ![r] = "done"]
    /\ req' = [req EXCEPT ![r] = Summary(req[r])]
    /\ loc' = [loc EXCEPT ![r] = NoLoc]
    /\ resp' = [resp EXCEPT ![r] = response]
    /\ UNCHANGED received

\* Request slot r is free to take the next request.
Arrives(r) == Free(r) /\ received < MaxRequests

\* `request` arrived and its handler returned (or raised) `response` at its
\* first statement.
Answer(r, request, response) ==
    /\ pc' = [pc EXCEPT ![r] = "done"]
    /\ req' = [req EXCEPT ![r] = Summary(request)]
    /\ loc' = [loc EXCEPT ![r] = NoLoc]
    /\ resp' = [resp EXCEPT ![r] = response]
    /\ received' = received + 1

\* `request` arrived, passed its handler's first statement and goes on to `next`.
Admit(r, request, next) ==
    /\ pc' = [pc EXCEPT ![r] = next]
    /\ req' = [req EXCEPT ![r] = request]
    /\ loc' = [loc EXCEPT ![r] = NoLoc]
    /\ resp' = [resp EXCEPT ![r] = NoResp]
    /\ received' = received + 1

At(r, kind, statement) == pc[r] = statement /\ req[r].kind = kind

Init ==
    /\ customers = <<>>
    /\ menu_items = <<>>
    /\ customer_orders = <<>>
    /\ ordered_items = <<>>
    /\ sqlite_sequence = [t \in TableNames |-> 0]
    /\ pc = [r \in Reqs |-> "idle"]
    /\ req = [r \in Reqs |-> NoReq]
    /\ loc = [r \in Reqs |-> NoLoc]
    /\ resp = [r \in Reqs |-> NoResp]
    /\ received = 0

\* ------------------------------------------------------------------ customers
\* POST /customers
create_customer(r) ==
    \E body \in CustomerBodies :
        LET request == [kind |-> "create_customer", id |-> 0, body |-> body] IN
        /\ Arrives(r)
        /\ IF ContactNumberTaken(request.body.contact_number, 0)
           THEN /\ Answer(r, request, Conflict)
                /\ UNCHANGED store
           ELSE /\ customers' = InsertRow(customers, NextId("customers"), request.body)
                /\ sqlite_sequence' = Bump("customers")
                /\ Answer(r, request, [status |-> 200, id |-> NextId("customers"),
                                       message |-> "Customer created successfully."])
                /\ UNCHANGED <<menu_items, customer_orders, ordered_items>>

\* GET /customers/{id}
get_customer(r) ==
    \E id \in Ids("customers") :
        LET request == [kind |-> "get_customer", id |-> id] IN
        /\ Arrives(r)
        /\ IF does_record_exist("customers", request.id)
           THEN Answer(r, request,
                       [status |-> 200, id |-> request.id,
                        full_name |-> customers[request.id].full_name,
                        contact_number |-> customers[request.id].contact_number])
           ELSE Answer(r, request, NotFound("Customer not found."))
        /\ UNCHANGED store

\* PUT /customers/{id}: the existence check
update_customer_check(r) ==
    \E id \in Ids("customers"), body \in CustomerBodies :
        LET request == [kind |-> "update_customer", id |-> id, body |-> body] IN
        /\ Arrives(r)
        /\ IF does_record_exist("customers", request.id)
           THEN Admit(r, request, "update")
           ELSE Answer(r, request, NotFound("Customer not found."))
        /\ UNCHANGED store

\* PUT /customers/{id}: the UPDATE statement
update_customer_update(r) ==
    /\ At(r, "update_customer", "update")
    /\ IF req[r].id \notin DOMAIN customers
       THEN \* the row went away since the check: the UPDATE matches nothing
            /\ Return(r, Ok("Customer updated successfully."))
            /\ UNCHANGED store
       ELSE IF ContactNumberTaken(req[r].body.contact_number, req[r].id)
       THEN \* sqlite3.IntegrityError, which this handler does not catch
            /\ Return(r, ServerError)
            /\ UNCHANGED store
       ELSE /\ customers' = UpdateRow(customers, req[r].id, req[r].body)
            /\ Return(r, Ok("Customer updated successfully."))
            /\ UNCHANGED <<menu_items, customer_orders, ordered_items, sqlite_sequence>>

\* DELETE /customers/{id}: the existence check
delete_customer_check(r) ==
    \E id \in Ids("customers") :
        LET request == [kind |-> "delete_customer", id |-> id] IN
        /\ Arrives(r)
        /\ IF does_record_exist("customers", request.id)
           THEN Admit(r, request, "delete")
           ELSE Answer(r, request, NotFound("Customer not found."))
        /\ UNCHANGED store

\* Faulty variant, to test C9: the delete cascades to the customer's orders.
delete_customer_delete_cascade(r) ==
    /\ At(r, "delete_customer", "delete")
    /\ customers' = DeleteRows(customers, {req[r].id})
    /\ customer_orders' = DeleteRows(customer_orders,
            {o \in DOMAIN customer_orders : customer_orders[o].customer_id = req[r].id})
    /\ Return(r, Ok("Customer deleted successfully."))
    /\ UNCHANGED <<menu_items, ordered_items, sqlite_sequence>>

\* DELETE /customers/{id}: the DELETE statement
delete_customer_delete(r) ==
    /\ At(r, "delete_customer", "delete")
    /\ customers' = DeleteRows(customers, {req[r].id})
    /\ Return(r, Ok("Customer deleted successfully."))
    /\ UNCHANGED <<menu_items, customer_orders, ordered_items, sqlite_sequence>>

\* ------------------------------------------------------------------ menu items
\* POST /menu-items
create_menu_item(r) ==
    \E body \in MenuItemBodies :
        LET request == [kind |-> "create_menu_item", id |-> 0, body |-> body] IN
        /\ Arrives(r)
        /\ IF DishNameTaken(request.body.dish_name, 0)
           THEN \* sqlite3.IntegrityError, which this handler does not catch
                /\ Answer(r, request, ServerError)
                /\ UNCHANGED store
           ELSE /\ menu_items' = InsertRow(menu_items, NextId("menu_items"), request.body)
                /\ sqlite_sequence' = Bump("menu_items")
                /\ Answer(r, request, [status |-> 200, id |-> NextId("menu_items"),
                                       message |-> "Menu item added successfully."])
                /\ UNCHANGED <<customers, customer_orders, ordered_items>>

\* GET /menu-items/{id}
get_menu_item(r) ==
    \E id \in Ids("menu_items") :
        LET request == [kind |-> "get_menu_item", id |-> id] IN
        /\ Arrives(r)
        /\ IF does_record_exist("menu_items", request.id)
           THEN Answer(r, request,
                       [status |-> 200, id |-> request.id,
                        dish_name |-> menu_items[request.id].dish_name,
                        cost |-> menu_items[request.id].cost])
           ELSE Answer(r, request, NotFound("Menu item not found."))
        /\ UNCHANGED store

\* PUT /menu-items/{id}: the existence check
update_menu_item_check(r) ==
    \E id \in Ids("menu_items"), body \in MenuItemBodies :
        LET request == [kind |-> "update_menu_item", id |-> id, body |-> body] IN
        /\ Arrives(r)
        /\ IF does_record_exist("menu_items", request.id)
           THEN Admit(r, request, "update")
           ELSE Answer(r, request, NotFound("Menu item not found."))
        /\ UNCHANGED store

\* Faulty variant, to test C10: the UPDATE sets dish_name and leaves cost alone.
MenuItemUpdate_name_only(old, item) == [dish_name |-> item.dish_name, cost |-> old.cost]

\* UPDATE menu_items SET dish_name = ?, cost = ?: the row after the update.
MenuItemUpdate(old, item) == [dish_name |-> item.dish_name, cost |-> item.cost]

\* PUT /menu-items/{id}: the UPDATE statement
update_menu_item_update(r) ==
    /\ At(r, "update_menu_item", "update")
    /\ IF req[r].id \notin DOMAIN menu_items
       THEN /\ Return(r, Ok("Menu item updated successfully."))
            /\ UNCHANGED store
       ELSE IF DishNameTaken(req[r].body.dish_name, req[r].id)
       THEN /\ Return(r, ServerError)
            /\ UNCHANGED store
       ELSE /\ menu_items' = UpdateRow(menu_items, req[r].id,
                                       MenuItemUpdate(menu_items[req[r].id], req[r].body))
            /\ Return(r, Ok("Menu item updated successfully."))
            /\ UNCHANGED <<customers, customer_orders, ordered_items, sqlite_sequence>>

\* DELETE /menu-items/{id}: the existence check
delete_menu_item_check(r) ==
    \E id \in Ids("menu_items") :
        LET request == [kind |-> "delete_menu_item", id |-> id] IN
        /\ Arrives(r)
        /\ IF does_record_exist("menu_items", request.id)
           THEN Admit(r, request, "delete")
           ELSE Answer(r, request, NotFound("Menu item not found."))
        /\ UNCHANGED store

\* DELETE /menu-items/{id}: the DELETE statement
delete_menu_item_delete(r) ==
    /\ At(r, "delete_menu_item", "delete")
    /\ menu_items' = DeleteRows(menu_items, {req[r].id})
    /\ Return(r, Ok("Menu item deleted successfully."))
    /\ UNCHANGED <<customers, customer_orders, ordered_items, sqlite_sequence>>

\* ------------------------------------------------------------------ orders
\* order.order_notes or ""
NotesOrEmpty(order_notes) == IF order_notes = None \/ order_notes = "" THEN "" ELSE order_notes

\* SELECT id, cost FROM menu_items WHERE dish_name = ? ; fetchone():
\* <<id, cost>> of the matching row (dish_name is UNIQUE), <<>> for None.
SelectMenuItem(dish_name) ==
    IF \E m \in DOMAIN menu_items : menu_items[m].dish_name = dish_name
    THEN LET m == CHOOSE k \in DOMAIN menu_items : menu_items[k].dish_name = dish_name
         IN <<m, menu_items[m].cost>>
    ELSE <<>>

\* Faulty variant, to test C7: a note is recorded for every item.
Reconcile_always(price_changes, menu_item, correct_cost) ==
    Append(price_changes, <<menu_item.dish_name, menu_item.cost, correct_cost>>)

\* if menu_item.cost != correct_cost: price_changes.append(...)
\* A note "Menu item '{dish_name}' cost updated from {cost} to {correct_cost}."
\* is kept as the three values it is formatted from.
Reconcile(price_changes, menu_item, correct_cost) ==
    IF menu_item.cost # correct_cost
    THEN Append(price_changes, <<menu_item.dish_name, menu_item.cost, correct_cost>>)
    ELSE price_changes

\* Faulty variant, to test C8: a dish the order already holds is not inserted again.
InsertOrderedItem_once(order_id, item_id) ==
    IF \E l \in DOMAIN ordered_items :
            ordered_items[l] = [order_id |-> order_id, menu_item_id |-> item_id]
    THEN ordered_items
    ELSE InsertRow(ordered_items, NextId("ordered_items"),
                   [order_id |-> order_id, menu_item_id |-> item_id])

\* INSERT INTO ordered_items (order_id, menu_item_id) VALUES (?, ?)
InsertOrderedItem(order_id, item_id) ==
    InsertRow(ordered_items, NextId("ordered_items"),
              [order_id |-> order_id, menu_item_id |-> item_id])

\* Faulty variant, to test C4: the old line items are kept.
DeleteOrderedItems_none(order_id) == ordered_items

\* DELETE FROM ordered_items WHERE order_id = ?
DeleteOrderedItems(order_id) ==
    DeleteRows(ordered_items,
               {l \in DOMAIN ordered_items : ordered_items[l].order_id = order_id})

\* The response both order handlers build after the loop.
OrderResponse(id, message, price_changes) ==
    IF price_changes # <<>>
    THEN [status |-> 200, id |-> id, message |-> message, price_changes |-> price_changes]
    ELSE [status |-> 200, id |-> id, message |-> message]

OrderMessage(kind) ==
    IF kind = "create_order" THEN "Order created successfully."
    ELSE "Order updated successfully."

\* The for loop is entered with `price_changes` collected so far and item i next;
\* past the last item the handler returns its response.
LoopFrom(r, i, price_changes) ==
    IF i <= Len(req[r].body.items)
    THEN /\ Goto(r, "select_item")
         /\ loc' = [loc EXCEPT ![r].i = i, ![r].price_changes = price_changes,
                               ![r].item_data = <<>>]
    ELSE Return(r, OrderResponse(loc[r].order_id, OrderMessage(req[r].kind),
                                 price_changes))

\* Faulty variant, to test C3: the header INSERT is reached without the customer check.
create_order_check_skipped(r) ==
    \E body \in OrderBodies :
        LET request == [kind |-> "create_order", id |-> 0, body |-> body] IN
        /\ Arrives(r)
        /\ Admit(r, request, "insert_order")
        /\ UNCHANGED store

\* POST /orders: the customer check
create_order_check(r) ==
    \E body \in OrderBodies :
        LET request == [kind |-> "create_order", id |-> 0, body |-> body] IN
        /\ Arrives(r)
        /\ IF does_record_exist("customers", request.body.customer_id)
           THEN Admit(r, request, "insert_order")
           ELSE Answer(r, request, NotFound("Customer not found."))
        /\ UNCHANGED store

\* Faulty variant, to test C5: the header is inserted only when every dish is on the menu.
create_order_insert_validated(r) ==
    /\ At(r, "create_order", "insert_order")
    /\ IF \A k \in 1..Len(req[r].body.items) :
            SelectMenuItem(req[r].body.items[k].dish_name) # <<>>
       THEN customer_orders' = InsertRow(customer_orders, NextId("customer_orders"),
                [customer_id |-> req[r].body.customer_id,
                 order_notes |-> NotesOrEmpty(req[r].body.order_notes)])
       ELSE UNCHANGED customer_orders
    /\ sqlite_sequence' = Bump("customer_orders")
    /\ IF 1 <= Len(req[r].body.items)
       THEN /\ Goto(r, "select_item")
            /\ loc' = [loc EXCEPT ![r].order_id = NextId("customer_orders")]
       ELSE Return(r, OrderResponse(NextId("customer_orders"),
                                    OrderMessage("create_order"), <<>>))
    /\ UNCHANGED <<customers, menu_items, ordered_items>>

\* POST /orders: the header INSERT
create_order_insert(r) ==
    /\ At(r, "create_order", "insert_order")
    /\ customer_orders' = InsertRow(customer_orders, NextId("customer_orders"),
            [customer_id |-> req[r].body.customer_id,
             order_notes |-> NotesOrEmpty(req[r].body.order_notes)])
    /\ sqlite_sequence' = Bump("customer_orders")
    /\ IF 1 <= Len(req[r].body.items)
       THEN /\ Goto(r, "select_item")
            /\ loc' = [loc EXCEPT ![r].order_id = NextId("customer_orders")]
       ELSE Return(r, OrderResponse(NextId("customer_orders"),
                                    OrderMessage("create_order"), <<>>))
    /\ UNCHANGED <<customers, menu_items, ordered_items>>

\* PUT /orders/{id}: the existence check
update_order_check(r) ==
    \E id \in Ids("customer_orders"), body \in OrderBodies :
        LET request == [kind |-> "update_order", id |-> id, body |-> body] IN
        /\ Arrives(r)
        /\ IF does_record_exist("customer_orders", request.id)
           THEN Admit(r, request, "update_order")
           ELSE Answer(r, request, NotFound("Order not found."))
        /\ UNCHANGED store

\* PUT /orders/{id}: the header UPDATE
update_order_update(r) ==
    /\ At(r, "update_order", "update_order")
    /\ customer_orders' =
        IF req[r].id \in DOMAIN customer_orders
        THEN UpdateRow(customer_orders, req[r].id,
                [customer_id |-> req[r].body.customer_id,
                 order_notes |-> NotesOrEmpty(req[r].body.order_notes)])
        ELSE customer_orders
    /\ Goto(r, "delete_items")
    /\ loc' = [loc EXCEPT ![r].order_id = req[r].id]
    /\ UNCHANGED <<customers, menu_items, ordered_items, sqlite_sequence>>

\* PUT /orders/{id}: the DELETE of the old line items, then into the loop
update_order_delete_items(r) ==
    /\ At(r, "update_order", "delete_items")
    /\ ordered_items' = DeleteOrderedItems(req[r].id)
    /\ LoopFrom(r, 1, <<>>)
    /\ UNCHANGED <<customers, menu_items, customer_orders, sqlite_sequence>>

\* Both loops: the menu lookup of item i
order_select_item(r) ==
    /\ pc[r] = "select_item"
    /\ LET item_data == SelectMenuItem(req[r].body.items[loc[r].i].dish_name) IN
       IF item_data = <<>>
       THEN Return(r, MenuItemNotFound(req[r].body.items[loc[r].i].dish_name))
       ELSE /\ Goto(r, "insert_item")
            /\ loc' = [loc EXCEPT ![r].item_data = item_data]
    /\ UNCHANGED store

\* Both loops: the reconciliation note and the INSERT of line item i
order_insert_item(r) ==
    /\ pc[r] = "insert_item"
    /\ ordered_items' = InsertOrderedItem(loc[r].order_id, loc[r].item_data[1])
    /\ sqlite_sequence' = Bump("ordered_items")
    /\ LoopFrom(r, loc[r].i + 1,
                Reconcile(loc[r].price_changes, req[r].body.items[loc[r].i],
                          loc[r].item_data[2]))
    /\ UNCHANGED <<customers, menu_items, customer_orders>>

\* SELECT m.dish_name, m.cost FROM ordered_items oi JOIN menu_items m
\*   ON oi.menu_item_id = m.id WHERE oi.order_id = ? ; rows in rowid order
\* of ordered_items, up to row n.
RECURSIVE SelectOrderItems(_, _)
SelectOrderItems(id, n) ==
    IF n = 0 THEN <<>>
    ELSE LET rest == SelectOrderItems(id, n - 1) IN
         IF /\ n \in DOMAIN ordered_items
            /\ ordered_items[n].order_id = id
            /\ ordered_items[n].menu_item_id \in DOMAIN menu_items
         THEN Append(rest, menu_items[ordered_items[n].menu_item_id])
         ELSE rest

\* GET /orders/{id}: the header SELECT
get_order_select_order(r) ==
    \E id \in Ids("customer_orders") :
        LET request == [kind |-> "get_order", id |-> id] IN
        /\ Arrives(r)
        /\ IF request.id \in DOMAIN customer_orders
           THEN /\ pc' = [pc EXCEPT ![r] = "select_items"]
                /\ req' = [req EXCEPT ![r] = request]
                /\ loc' = [loc EXCEPT ![r] =
                            [NoLoc EXCEPT !.order = customer_orders[request.id]]]
                /\ resp' = [resp EXCEPT ![r] = NoResp]
                /\ received' = received + 1
           ELSE Answer(r, request, NotFound("Order not found."))
        /\ UNCHANGED store

\* GET /orders/{id}: the line item SELECT and the response
get_order_select_items(r) ==
    /\ At(r, "get_order", "select_items")
    /\ Return(r, [status |-> 200, id |-> req[r].id,
                  customer_id |-> loc[r].order.customer_id,
                  order_notes |-> loc[r].order.order_notes,
                  items |-> SelectOrderItems(req[r].id, sqlite_sequence["ordered_items"])])
    /\ UNCHANGED store

\* What GET /orders/{id} answers when no other request runs between its two
\* SELECTs.
get_order(id) ==
    IF id \in DOMAIN customer_orders
    THEN [status |-> 200, id |-> id,
          customer_id |-> customer_orders[id].customer_id,
          order_notes |-> customer_orders[id].order_notes,
          items |-> SelectOrderItems(id, sqlite_sequence["ordered_items"])]
    ELSE NotFound("Order not found.")

\* DELETE /orders/{id}: the existence check
delete_order_check(r) ==
    \E id \in Ids("customer_orders") :
        LET request == [kind |-> "delete_order", id |-> id] IN
        /\ Arrives(r)
        /\ IF does_record_exist("customer_orders", request.id)
           THEN Admit(r, request, "delete_items")
           ELSE Answer(r, request, NotFound("Order not found."))
        /\ UNCHANGED store

\* DELETE /orders/{id}: the DELETE of the line items
delete_order_delete_items(r) ==
    /\ At(r, "delete_order", "delete_items")
    /\ ordered_items' = DeleteOrderedItems(req[r].id)
    /\ Goto(r, "delete_order")
    /\ UNCHANGED <<customers, menu_items, customer_orders, sqlite_sequence, loc>>

\* DELETE /orders/{id}: the DELETE of the header
delete_order_delete(r) ==
    /\ At(r, "delete_order", "delete_order")
    /\ customer_orders' = DeleteRows(customer_orders, {req[r].id})
    /\ Return(r, Ok("Order deleted successfully."))
    /\ UNCHANGED <<customers, menu_items, ordered_items, sqlite_sequence>>

\* ------------------------------------------------------------------ system

Step(r) ==
    \/ create_customer(r)
    \/ get_customer(r)
    \/ update_customer_check(r)
    \/ update_customer_update(r)
    \/ delete_customer_check(r)
    \/ delete_customer_delete(r)
    \/ create_menu_item(r)
    \/ get_menu_item(r)
    \/ update_menu_item_check(r)
    \/ update_menu_item_update(r)
    \/ delete_menu_item_check(r)
    \/ delete_menu_item_delete(r)
    \/ create_order_check(r)
    \/ create_order_insert(r)
    \/ update_order_check(r)
    \/ update_order_update(r)
    \/ update_order_delete_items(r)
    \/ order_select_item(r)
    \/ order_insert_item(r)
    \/ get_order_select_order(r)
    \/ get_order_select_items(r)
    \/ delete_order_check(r)
    \/ delete_order_delete_items(r)
    \/ delete_order_delete(r)

\* Requests handled one at a time.
Serving == "r1"

NextSerial == Step(Serving)

SpecSerial == Init /\ [][NextSerial]_vars

\* The customer endpoints alone, requests interleaving.
CustomerStep(r) ==
    \/ create_customer(r)
    \/ get_customer(r)
    \/ update_customer_check(r)
    \/ update_customer_update(r)
    \/ delete_customer_check(r)
    \/ delete_customer_delete(r)

NextCustomers == \E r \in Reqs : CustomerStep(r)

SpecCustomers == Init /\ [][NextCustomers]_vars

Next == \E r \in Reqs : Step(r)

Spec == Init /\ [][Next]_vars
\* ------------------------------------------------------------------ claims
S == Serving

OnMenu(dish_name) == \E m \in DOMAIN menu_items : menu_items[m].dish_name = dish_name

StoredCost(dish_name) ==
    menu_items[CHOOSE m \in DOMAIN menu_items : menu_items[m].dish_name = dish_name].cost

\* The items as GET /orders/{id} is to show them: by dish name, at the stored cost.
Canonical(items) ==
    [k \in 1..Len(items) |->
        [dish_name |-> items[k].dish_name, cost |-> StoredCost(items[k].dish_name)]]

\* Index of the first item whose dish is not on the menu.
FirstMissing(items) ==
    CHOOSE k \in 1..Len(items) :
        /\ ~OnMenu(items[k].dish_name)
        /\ \A j \in 1..(k - 1) : OnMenu(items[j].dish_name)

Count(seq, x) == Cardinality({k \in DOMAIN seq : seq[k] = x})

\* The same lines, each as often, in whatever order the SELECT returns them.
SameLines(a, b) ==
    /\ Len(a) = Len(b)
    /\ \A k \in DOMAIN a : Count(a, a[k]) = Count(b, a[k])

LinesOf(order_id) ==
    {l \in DOMAIN ordered_items : ordered_items[l].order_id = order_id}

NotesSent(order_notes) == IF order_notes = None THEN "" ELSE order_notes

RECURSIVE ExpectedNotes(_)
ExpectedNotes(items) ==
    IF items = <<>> THEN <<>>
    ELSE LET item == Head(items) IN
         (IF item.cost # StoredCost(item.dish_name)
          THEN <<(<<item.dish_name, item.cost, StoredCost(item.dish_name)>>)>>
          ELSE <<>>) \o ExpectedNotes(Tail(items))

\* The request being served returns in this step, from one of `statements`.
Returns(kinds, statements) ==
    /\ req[S].kind \in kinds
    /\ pc[S] \in statements
    /\ pc'[S] = "done"

\* The id of the order the request being served writes.
OrderIdServed ==
    IF req[S].kind = "update_order" THEN req[S].id
    ELSE IF pc[S] = "insert_order" THEN NextId("customer_orders")
    ELSE loc[S].order_id

SlotChanged(r) == <<pc[r], req[r], resp[r]>> # <<pc'[r], req'[r], resp'[r]>>

\* C1: in every reachable state every ordered_items row's order_id is the id
\* of a customer_orders row, whatever the interleaving of create_order,
\* update_order and delete_order.
C1_OrderIdReferencesOrder ==
    \A l \in DOMAIN ordered_items : ordered_items[l].order_id \in DOMAIN customer_orders

\* C2: whenever a handler inserts an ordered_items row, its menu_item_id is
\* the id of a menu_items row at the moment of the insert, also when a
\* delete_menu_item ran between the lookup by dish name and the insert.
C2_MenuItemExistsAtInsert ==
    [][\A l \in DOMAIN ordered_items' \ DOMAIN ordered_items :
            ordered_items'[l].menu_item_id \in DOMAIN menu_items']_vars

\* C3: a create_order whose customer_id matches no customers row returns
\* not-found at its first statement and leaves every table unchanged.
C3_MissingCustomer ==
    [][(/\ received' # received
        /\ req'[S].kind = "create_order"
        /\ (IF "body" \in DOMAIN req'[S] THEN req'[S].body.customer_id
            ELSE req'[S].customer_id) \notin DOMAIN customers)
       => (/\ pc'[S] = "done"
           /\ resp'[S] = NotFound("Customer not found.")
           /\ customer_orders' = customer_orders
           /\ ordered_items' = ordered_items
           /\ UNCHANGED store)]_vars

C3_Witness ==
    /\ pc[S] = "done"
    /\ req[S].kind = "create_order"
    /\ resp[S] = NotFound("Customer not found.")
    /\ req[S].customer_id \notin DOMAIN customers
    /\ customer_orders = <<>>
    /\ customers # <<>>

\* C4 as stated: an update_order that fails on a dish that is not on the menu
\* leaves the order without line items, wherever the dish is in the list.
C4_NoLineItemsLeft ==
    [][Returns({"update_order"}, {"select_item"})
       => \A id \in {OrderIdServed} : LinesOf(id)' = {}]_vars

\* C4 as amended: an update_order that fails on its k-th dish, the first one
\* that is not on the menu, leaves the order with exactly the k-1 line items
\* of the entries before it; the line items the order had are gone.
C4_LineItemsBeforeMissing ==
    [][Returns({"update_order"}, {"select_item"})
       => \A id \in {OrderIdServed}, items \in {req[S].body.items} :
            \A k \in {FirstMissing(items)} :
             /\ resp'[S] = MenuItemNotFound(items[k].dish_name)
             /\ id \in DOMAIN customer_orders'
             /\ Cardinality(LinesOf(id)') = k - 1
             /\ SameLines(get_order(id)'.items,
                          Canonical(SubSeq(items, 1, k - 1)))]_vars

C4_Witness ==
    /\ pc[S] = "done"
    /\ req[S].kind = "update_order"
    /\ resp[S].status = 404
    /\ resp[S].detail = "Menu item '{dish_name}' not found."
    /\ LinesOf(req[S].id) # {}
    /\ \E l \in 1..sqlite_sequence["ordered_items"] : l \notin DOMAIN ordered_items

\* C5: a create_order of an existing customer that fails on its k-th dish, the
\* first one that is not on the menu, leaves its header row in customer_orders
\* with exactly the k-1 line items of the entries before it.
C5_HeaderAndPartialLines ==
    [][Returns({"create_order"}, {"select_item"})
       => \A id \in {OrderIdServed}, items \in {req[S].body.items} :
            \A k \in {FirstMissing(items)} :
             /\ resp'[S] = MenuItemNotFound(items[k].dish_name)
             /\ id \in DOMAIN customer_orders'
             /\ customer_orders'[id] =
                    [customer_id |-> req[S].body.customer_id,
                     order_notes |-> NotesSent(req[S].body.order_notes)]
             /\ Cardinality(LinesOf(id)') = k - 1
             /\ SameLines(get_order(id)'.items,
                          Canonical(SubSeq(items, 1, k - 1)))]_vars

C5_Witness ==
    /\ pc[S] = "done"
    /\ req[S].kind = "create_order"
    /\ resp[S].status = 404
    /\ resp[S].detail = "Menu item '{dish_name}' not found."
    /\ sqlite_sequence["customer_orders"] \in DOMAIN customer_orders
    /\ LinesOf(sqlite_sequence["customer_orders"]) # {}

UniqueContactNumbers ==
    \A c, d \in DOMAIN customers :
        c # d => customers[c].contact_number # customers[d].contact_number

\* C6: no two customers rows ever hold the same contact_number, whatever
\* create_customer, update_customer and delete_customer requests interleave;
\* a create_customer with a contact number some row holds returns the
\* conflict error and adds no row, and one with a free number adds its row.
C6_ContactNumberUnique ==
    /\ []UniqueContactNumbers
    /\ [][\A r \in Reqs :
            (received' # received /\ SlotChanged(r) /\ req'[r].kind = "create_customer")
            => IF \E c \in DOMAIN customers :
                    customers[c].contact_number = req'[r].body.contact_number
               THEN resp'[r] = Conflict /\ customers' = customers
               ELSE /\ resp'[r].status = 200
                    /\ DOMAIN customers' = DOMAIN customers \cup {resp'[r].id}
                    /\ customers'[resp'[r].id] = req'[r].body]_vars

C6_Witness ==
    \E r, q \in Reqs :
        /\ pc[r] = "done" /\ pc[q] = "done"
        /\ req[r].kind = "create_customer" /\ req[q].kind = "create_customer"
        /\ req[r].body.contact_number = req[q].body.contact_number
        /\ resp[r].status = 200
        /\ resp[q] = Conflict
        /\ resp[r].id \in DOMAIN customers

\* C7: a create_order past the customer check whose dishes are all on the menu
\* succeeds whatever costs the client sent; the response carries one note per
\* submitted item whose cost differs from the stored one, and no price_changes
\* field when none differs; read back, every item shows the stored cost.
C7_PriceReconciliation ==
    [][(/\ Returns({"create_order"}, {"insert_order", "select_item", "insert_item"})
        /\ \A k \in DOMAIN req[S].body.items : OnMenu(req[S].body.items[k].dish_name))
       => \A id \in {OrderIdServed}, items \in {req[S].body.items} :
          LET shown == get_order(id)'
          IN /\ resp'[S].status = 200
             /\ resp'[S].id = id
             /\ resp'[S].message = "Order created successfully."
             /\ IF ExpectedNotes(items) = <<>>
                THEN "price_changes" \notin DOMAIN resp'[S]
                ELSE /\ "price_changes" \in DOMAIN resp'[S]
                     /\ resp'[S].price_changes = ExpectedNotes(items)
             /\ shown.status = 200
             /\ Len(shown.items) = Len(items)
             /\ \A k \in DOMAIN shown.items :
                    shown.items[k].cost = StoredCost(shown.items[k].dish_name)]_vars

C7_Witness ==
    /\ pc[S] = "done"
    /\ req[S].kind = "create_order"
    /\ resp[S].status = 200
    /\ "price_changes" \in DOMAIN resp[S]
    /\ Len(resp[S].price_changes) = 1
    /\ Len(get_order(resp[S].id).items) = 2

\* C8: after a create_order or update_order that succeeded with customer id c,
\* notes n and items L, get_order of that order shows customer_id c, notes n
\* ("" when none were sent) and one line per entry of L, duplicates included,
\* each by dish name at its stored cost.
C8_RoundTrip ==
    [][(/\ Returns({"create_order", "update_order"},
                   {"insert_order", "delete_items", "insert_item"})
        /\ resp'[S].status = 200)
       => \A id \in {OrderIdServed} :
          LET shown == get_order(id)' IN
          /\ resp'[S].id = id
          /\ shown.status = 200
          /\ shown.id = id
          /\ shown.customer_id = req[S].body.customer_id
          /\ shown.order_notes = NotesSent(req[S].body.order_notes)
          /\ SameLines(shown.items, Canonical(req[S].body.items))]_vars

C8_Witness ==
    /\ pc[S] = "done"
    /\ req[S].kind \in {"create_order", "update_order"}
    /\ resp[S].status = 200
    /\ \E l1, l2 \in LinesOf(resp[S].id) :
        l1 # l2 /\ ordered_items[l1].menu_item_id = ordered_items[l2].menu_item_id
    /\ Len(get_order(resp[S].id).items) = 2

\* C9: delete_customer of a customer that orders reference succeeds, removes
\* that customers row alone and changes no customer_orders or ordered_items
\* row; get_order still answers for those orders, with a customer_id that
\* matches no customer.
C9_DeleteCustomerNoCascade ==
    [][(/\ Returns({"delete_customer"}, {"delete"})
        /\ req[S].id \in DOMAIN customers
        /\ \E o \in DOMAIN customer_orders : customer_orders[o].customer_id = req[S].id)
       => /\ resp'[S] = Ok("Customer deleted successfully.")
          /\ customers' = DeleteRows(customers, {req[S].id})
          /\ customer_orders' = customer_orders
          /\ ordered_items' = ordered_items
          /\ menu_items' = menu_items
          /\ \A o \in DOMAIN customer_orders :
                customer_orders[o].customer_id = req[S].id
                => /\ get_order(o)' = get_order(o)
                   /\ get_order(o)'.status = 200
                   /\ get_order(o)'.customer_id \notin DOMAIN customers']_vars

C9_Witness ==
    /\ pc[S] = "done"
    /\ req[S].kind = "delete_customer"
    /\ resp[S].status = 200
    /\ \E o \in DOMAIN customer_orders :
        /\ customer_orders[o].customer_id = req[S].id
        /\ get_order(o).status = 200
        /\ get_order(o).customer_id \notin DOMAIN customers

\* C10: once update_menu_item has changed the cost of a menu item, get_order
\* of an order created before shows the new cost on every line that
\* references the item; the update changes no ordered_items row.
C10_CostNotPinned ==
    [][(/\ Returns({"update_menu_item"}, {"update"})
        /\ resp'[S].status = 200
        /\ req[S].id \in DOMAIN menu_items
        /\ req[S].body.cost # menu_items[req[S].id].cost)
       => /\ ordered_items' = ordered_items
          /\ \A o \in DOMAIN customer_orders :
                /\ get_order(o)'.status = 200
                /\ Len(get_order(o)'.items) = Len(get_order(o).items)
                /\ \A k \in DOMAIN get_order(o).items :
                     get_order(o)'.items[k] =
                        IF get_order(o).items[k].dish_name
                                = menu_items[req[S].id].dish_name
                        THEN [dish_name |-> req[S].body.dish_name,
                              cost |-> req[S].body.cost]
                        ELSE get_order(o).items[k]]_vars

C10_Witness ==
    /\ pc[S] = "done"
    /\ req[S].kind = "update_menu_item"
    /\ resp[S].status = 200
    /\ \E o \in DOMAIN customer_orders :
        \E k \in DOMAIN get_order(o).items :
            /\ get_order(o).items[k].dish_name = req[S].body.dish_name
            /\ get_order(o).items[k].cost = req[S].body.cost
            /\ \E l \in LinesOf(o) : ordered_items[l].menu_item_id = req[S].id
====
